---------------------------- MODULE Spec2Model ----------------------------
(***************************************************************************)
(* Congestion-aware campus routing service (src/app.py).                   *)
(*                                                                         *)
(* The model follows the Flask application: the graph loaded at start-up,  *)
(* the forecast cache, the active forecast (app.forecast_map), the         *)
(* congestion penalty, the two path searches and the /forecast and /route  *)
(* handlers.                                                               *)
(*                                                                         *)
(* Units.  Python floats are modelled by exact integers in tenths:         *)
(*   length_m, pred_flow and capacity are tenths of their unit (the CSV    *)
(*   writers round lengths to one decimal), and a penalty is in tenths     *)
(*   (0, 3, 7 for 0.0, 0.3, 0.7).  base * (1 + pen) is therefore           *)
(*   length_m * (10 + pen), in hundredths of a metre.                      *)
(***************************************************************************)
EXTENDS Integers, Sequences, FiniteSets, TLC

VARIABLES
    GRAPH,           \* the module-level nx.Graph (src/app.py:62)
    MODEL,           \* the module-level predictor (src/app.py:63)
    FORECAST_CACHE,  \* dict key -> table (src/app.py:64)
    forecast_map,    \* the attribute app.forecast_map (src/app.py:208)
    resp,            \* the response of the request being answered (status 0: none)
    last_forecast,   \* history: the key of the last /forecast request answered 200 (<<>>: none)
    ret,             \* the last call of a function under test and what it returned
                     \* (function-level specifications)
    threads          \* the worker threads of the server, each with the request it is
                     \* answering and the locals of its handler (concurrent service)

vars == <<GRAPH, MODEL, FORECAST_CACHE, forecast_map, resp, last_forecast, ret, threads>>

---------------------------------------------------------------------------
(* Python values *)

\* None, and a request parameter that was not given (request.args.get -> None)
None == "<None>"

EmptyDict == [x \in {} |-> x]

\* dict.get(k, default)
Get(d, k, default) == IF k \in DOMAIN d THEN d[k] ELSE default

Max(a, b) == IF a >= b THEN a ELSE b

\* int(s) for the strings the requests use; a string outside the table raises ValueError
IntTable ==
    ("-1" :> -1) @@ ("0" :> 0) @@ ("1" :> 1) @@ ("2" :> 2) @@ ("3" :> 3) @@ ("4" :> 4)
      @@ ("5" :> 5) @@ ("9" :> 9) @@ ("17" :> 17)

\* float(s): accepts every integer literal and the decimal forms
FloatTable == IntTable @@ ("9.0" :> 9) @@ ("17.0" :> 17) @@ ("1.0" :> 1)

\* str.lower()
LowerTable == ("False" :> "false") @@ ("FALSE" :> "false") @@ ("True" :> "true")

lower(s) == Get(LowerTable, s, s)

---------------------------------------------------------------------------
(* The graph: nx.Graph as node order, adjacency order and edge attributes *)

EmptyGraph == [node |-> <<>>, adj |-> EmptyDict, edata |-> EmptyDict]

EdgeKey(u, v) == {u, v}

add_node(G, n) ==
    IF n \in DOMAIN G.adj THEN G
    ELSE [G EXCEPT !.node = Append(@, n), !.adj = (n :> <<>>) @@ @]

\* G.add_edge(u, v, **attr): creates missing endpoints, keeps the adjacency
\* position of an existing edge and overwrites its attributes
add_edge(G, u, v, attr) ==
    LET G1 == add_node(add_node(G, u), v)
        new == EdgeKey(u, v) \notin DOMAIN G1.edata
        a1 == IF new THEN [G1.adj EXCEPT ![u] = Append(@, v)] ELSE G1.adj
        a2 == IF new /\ u # v THEN [a1 EXCEPT ![v] = Append(@, u)] ELSE a1
    IN [G1 EXCEPT !.adj = a2, !.edata = (EdgeKey(u, v) :> attr) @@ @]

RECURSIVE add_nodes_from(_, _, _)
add_nodes_from(G, rows, i) ==
    IF i > Len(rows) THEN G ELSE add_nodes_from(add_node(G, rows[i]), rows, i + 1)

RECURSIVE add_edges_from(_, _, _)
add_edges_from(G, rows, i) ==
    IF i > Len(rows) THEN G
    ELSE LET row == rows[i]
             attr == [id |-> row.id, length_m |-> row.length_m,
                      capacity |-> row.capacity, weight |-> row.length_m]
         IN add_edges_from(add_edge(G, row.source, row.target, attr), rows, i + 1)

load_graph(nodes_csv, edges_csv) ==
    add_edges_from(add_nodes_from(EmptyGraph, nodes_csv, 1), edges_csv, 1)

\* G.edges(data=True): each edge once, by node order then adjacency order
RECURSIVE EdgesFrom(_, _, _, _)
EdgesFrom(G, i, j, seen) ==
    IF i > Len(G.node) THEN <<>>
    ELSE LET u == G.node[i]
         IN IF j > Len(G.adj[u]) THEN EdgesFrom(G, i + 1, 1, seen \cup {u})
            ELSE LET v == G.adj[u][j]
                 IN IF v \in seen THEN EdgesFrom(G, i, j + 1, seen)
                    ELSE <<[u |-> u, v |-> v, data |-> G.edata[EdgeKey(u, v)]]>>
                             \o EdgesFrom(G, i, j + 1, seen)

\* variant: every edge reported from both of its endpoints
RECURSIVE EdgesBothWays(_, _, _)
EdgesBothWays(G, i, j) ==
    IF i > Len(G.node) THEN <<>>
    ELSE LET u == G.node[i]
         IN IF j > Len(G.adj[u]) THEN EdgesBothWays(G, i + 1, 1)
            ELSE <<[u |-> u, v |-> G.adj[u][j], data |-> G.edata[EdgeKey(u, G.adj[u][j])]]>>
                     \o EdgesBothWays(G, i, j + 1)

edges_both_directions(G) == EdgesBothWays(G, 1, 1)

edges(G) == EdgesFrom(G, 1, 1, {})

EdgeIds(G) == {G.edata[k].id : k \in DOMAIN G.edata}

---------------------------------------------------------------------------
(* The flow predictor *)

\* The pickled RandomForestRegressor is opaque: MODEL is one of a few
\* deterministic predictors over the feature row (FEATURES, src/app.py:20-28).
\*   rf_base  : the trend the training data is generated from
\*   rf_roads : roads (capacity >= 600) are busy in the morning
\*   rf_paths : footpaths (capacity <= 400) are busy in the morning
Models == {"rf_base", "rf_roads", "rf_paths"}

predict(model, row) ==
    CASE model = "rf_base" ->
           ((25 + (IF row.is_peak # 0 THEN 40 ELSE 10)) * row.capacity) \div 100
             + (5 * row.capacity * row.hour) \div 2400
      [] model = "rf_roads" ->
           IF row.capacity >= 6000
           THEN (IF row.hour < 12 THEN (9 * row.capacity) \div 10 ELSE row.capacity \div 2)
           ELSE row.flow_lag1 * 2
      [] model = "rf_paths" ->
           IF row.capacity <= 4000
           THEN (IF row.hour < 12 THEN (4 * row.capacity) \div 5 ELSE row.capacity \div 4)
           ELSE row.flow_lag2 * 3

RECURSIVE PredictRows(_, _, _, _, _)
PredictRows(es, i, hour, day_of_week, is_peak) ==
    IF i > Len(es) THEN <<>>
    ELSE LET data == es[i].data
             cap == data.capacity
             row == [edge_id |-> data.id, hour |-> hour, day_of_week |-> day_of_week,
                     is_peak |-> is_peak, capacity |-> cap, length_m |-> data.length_m,
                     flow_lag1 |-> cap \div 10, flow_lag2 |-> cap \div 10]
         IN <<[edge_id |-> row.edge_id, pred_flow |-> predict(MODEL, row),
               capacity |-> row.capacity]>>
              \o PredictRows(es, i + 1, hour, day_of_week, is_peak)

\* One feature row per edge of GRAPH, one MODEL.predict call over the batch
predict_forecast(hour, day_of_week, is_peak) ==
    [table |-> PredictRows(edges(GRAPH), 1, hour, day_of_week, is_peak),
     predict_calls |-> 1]

---------------------------------------------------------------------------
(* The active forecast and the congestion penalty *)

Unset == [isset |-> FALSE, d |-> EmptyDict]

\* getattr(app, "forecast_map", default)
getattr_forecast_map(fm, default) == IF fm.isset THEN fm.d ELSE default

\* {r["edge_id"]: r for r in result}: a later row replaces an earlier one
RECURSIVE DictByEdgeId(_, _)
DictByEdgeId(result, i) ==
    IF i = 0 THEN EmptyDict
    ELSE (result[i].edge_id :> result[i]) @@ DictByEdgeId(result, i - 1)

\* variant: the tier boundaries given to the lower tier
RatioBelowOrEqual(f, num, den) == den * f.pred_flow <= num * Max(f.capacity, 10)

\* pred_flow / max(capacity, 1) < num / den, in exact arithmetic (1 is 10 tenths)
RatioBelow(f, num, den) == den * f.pred_flow < num * Max(f.capacity, 10)

penalty_of(fm, edge_id) ==
    LET m == getattr_forecast_map(fm, EmptyDict)
    IN IF edge_id \notin DOMAIN m THEN 0
       ELSE IF RatioBelow(m[edge_id], 1, 2) THEN 0
       ELSE IF RatioBelow(m[edge_id], 4, 5) THEN 3
       ELSE 7

congestion_penalty(edge_id) == penalty_of(forecast_map, edge_id)

---------------------------------------------------------------------------
(* networkx.algorithms.shortest_paths.astar.astar_path, as app.py calls it: *)
(* zero heuristic, the edge costs given as a table W over the edges.        *)

\* heappop: the least entry by (priority, insertion counter)
HeapMin(q) ==
    CHOOSE e \in q : \A f \in q : e[1] < f[1] \/ (e[1] = f[1] /\ e[2] <= f[2])

\* heuristic(u, v) of both searches
heuristic(u, v) == 0

RECURSIVE WalkBack(_, _)
WalkBack(explored, node) ==
    IF node = None THEN <<>> ELSE WalkBack(explored, explored[node]) \o <<node>>

\* for neighbor, w in G_succ[curnode].items(): ...
RECURSIVE astar_relax(_, _, _, _, _, _, _)
astar_relax(G, W, target, st, curnode, dist, j) ==
    IF j > Len(G.adj[curnode]) THEN st
    ELSE LET neighbor == G.adj[curnode][j]
             ncost == dist + W[EdgeKey(curnode, neighbor)]
         IN IF neighbor \in DOMAIN st.enqueued /\ st.enqueued[neighbor] <= ncost
            THEN astar_relax(G, W, target, st, curnode, dist, j + 1)
            ELSE astar_relax(G, W, target,
                     [st EXCEPT !.enqueued = (neighbor :> ncost) @@ @,
                                !.queue = @ \cup {<<ncost + heuristic(neighbor, target),
                                                    st.c, neighbor, ncost, curnode>>},
                                !.c = @ + 1],
                     curnode, dist, j + 1)

\* while queue: ...   (<<>> stands for raising NetworkXNoPath)
RECURSIVE astar_loop(_, _, _, _)
astar_loop(G, W, target, st) ==
    IF st.queue = {} THEN <<>>
    ELSE LET e == HeapMin(st.queue)
             curnode == e[3]
             dist == e[4]
             parent == e[5]
             popped == [st EXCEPT !.queue = @ \ {e}]
         IN IF curnode = target THEN WalkBack(st.explored, parent) \o <<curnode>>
            ELSE IF curnode \in DOMAIN st.explored
                      /\ (st.explored[curnode] = None \/ st.enqueued[curnode] < dist)
            THEN astar_loop(G, W, target, popped)
            ELSE astar_loop(G, W, target,
                     astar_relax(G, W, target,
                         [popped EXCEPT !.explored = (curnode :> parent) @@ @],
                         curnode, dist, 1))

astar_path(G, source, target, W) ==
    astar_loop(G, W, target,
        [queue |-> {<<0, 0, source, 0, None>>}, c |-> 1,
         enqueued |-> EmptyDict, explored |-> EmptyDict])

\* variant: the penalty left out of the cost
cost_without_penalty(data) == data.length_m * 10

\* cost(u, v, data) of astar_with_congestion
cost_congestion(data) == data.length_m * (10 + congestion_penalty(data.id))

\* cost(u, v, data) of astar_distance_only
cost_distance(data) == data.length_m

astar_with_congestion(source, target) ==
    astar_path(GRAPH, source, target,
        [k \in DOMAIN GRAPH.edata |-> cost_congestion(GRAPH.edata[k])])

astar_distance_only(source, target) ==
    astar_path(GRAPH, source, target,
        [k \in DOMAIN GRAPH.edata |-> cost_distance(GRAPH.edata[k])])

RECURSIVE path_length_from(_, _)
path_length_from(path, i) ==
    IF i >= Len(path) THEN 0
    ELSE Get(Get(GRAPH.edata, EdgeKey(path[i], path[i + 1]), EmptyDict), "length_m", 0)
           + path_length_from(path, i + 1)

path_length(path) == path_length_from(path, 1)

\* variant: pen_weight written without the penalty
build_unpenalized_graph ==
    [GRAPH EXCEPT !.edata =
        [k \in DOMAIN GRAPH.edata |->
            ("pen_weight" :> GRAPH.edata[k].length_m * 10) @@ GRAPH.edata[k]]]

\* variant: Gp is the graph itself (Gp = GRAPH)
Graph_alias(G) == [G |-> G, shares_data |-> TRUE]

\* G.copy(): a new graph with the nodes, the adjacency and the attributes of G.
\* networkx copies every edge attribute dict (datadict.copy()), so no attribute
\* dict of the result is an object of G: shares_data tells whether a write to
\* an edge attribute of the result is a write to G.
Graph_copy(G) == [G |-> G, shares_data |-> FALSE]

\* data["pen_weight"] = base * (1 + pen), pen being read from the active forecast
with_pen_weight(data) ==
    ("pen_weight" :> data.length_m * (10 + congestion_penalty(data.id))) @@ data

\* GRAPH.copy() with data["pen_weight"] = base * (1 + pen) on every edge of the copy
build_penalized_graph ==
    [Graph_copy(GRAPH).G EXCEPT !.edata =
        [k \in DOMAIN GRAPH.edata |-> with_pen_weight(GRAPH.edata[k])]]

\* GRAPH as build_penalized_graph leaves it: its writes reach GRAPH only
\* through an attribute dict that the copy shares with it
GRAPH_after_build_penalized_graph ==
    IF Graph_copy(GRAPH).shares_data THEN build_penalized_graph ELSE GRAPH

---------------------------------------------------------------------------
(* networkx.algorithms.simple_paths.shortest_simple_paths (Yen), with its   *)
(* _bidirectional_dijkstra and PathBuffer, as k_shortest_paths consumes it. *)

\* _weight_function(G, weight) for a string: data.get(weight, 1)
wt(data, weight) == Get(data, weight, 1)

Reverse(s) == [i \in 1..Len(s) |-> s[Len(s) + 1 - i]]

\* the result of a search that raised NetworkXNoPath
NoPath == [length |-> -1, path |-> <<>>]

\* Gsucc / Gpred through the ignore_nodes and ignore_edges filters
neighs(G, v, ignore_nodes, ignore_edges) ==
    SelectSeq(G.adj[v],
        LAMBDA w : w \notin ignore_nodes
                     /\ <<v, w>> \notin ignore_edges /\ <<w, v>> \notin ignore_edges)

\* for w in neighs[dir](v): ...
RECURSIVE bidir_relax(_, _, _, _, _, _, _)
bidir_relax(G, weight, st, dir, v, ns, j) ==
    IF j > Len(ns) THEN st
    ELSE LET w == ns[j]
             vwLength == st.dists[dir][v] + wt(G.edata[EdgeKey(v, w)], weight)
         IN IF w \in DOMAIN st.dists[dir]
            THEN bidir_relax(G, weight, st, dir, v, ns, j + 1)
            ELSE IF w \notin DOMAIN st.seen[dir] \/ vwLength < st.seen[dir][w]
            THEN LET seen1 == [st.seen EXCEPT ![dir] = (w :> vwLength) @@ @]
                     paths1 == [st.paths EXCEPT ![dir] = (w :> Append(st.paths[dir][v], w)) @@ @]
                     both == w \in DOMAIN seen1[0] /\ w \in DOMAIN seen1[1]
                     totaldist == seen1[0][w] + seen1[1][w]
                     better == both /\ (st.finalpath = <<>> \/ st.finaldist > totaldist)
                     st1 == [st EXCEPT !.seen = seen1, !.paths = paths1,
                                       !.fringe[dir] = @ \cup {<<vwLength, st.c, w>>},
                                       !.c = @ + 1,
                                       !.finaldist = IF better THEN totaldist ELSE @,
                                       !.finalpath = IF better
                                                     THEN paths1[0][w] \o Tail(Reverse(paths1[1][w]))
                                                     ELSE @]
                 IN bidir_relax(G, weight, st1, dir, v, ns, j + 1)
            ELSE bidir_relax(G, weight, st, dir, v, ns, j + 1)

\* while fringe[0] and fringe[1]: ...
RECURSIVE bidir_loop(_, _, _, _, _)
bidir_loop(G, weight, ignore_nodes, ignore_edges, st) ==
    IF st.fringe[0] = {} \/ st.fringe[1] = {} THEN NoPath
    ELSE LET dir == 1 - st.dir
             e == HeapMin(st.fringe[dir])
             dist == e[1]
             v == e[3]
             popped == [st EXCEPT !.dir = dir, !.fringe[dir] = @ \ {e}]
         IN IF v \in DOMAIN st.dists[dir]
            THEN bidir_loop(G, weight, ignore_nodes, ignore_edges, popped)
            ELSE IF v \in DOMAIN st.dists[1 - dir]
            THEN [length |-> st.finaldist, path |-> st.finalpath]
            ELSE bidir_loop(G, weight, ignore_nodes, ignore_edges,
                     bidir_relax(G, weight,
                         [popped EXCEPT !.dists[dir] = (v :> dist) @@ @],
                         dir, v, neighs(G, v, ignore_nodes, ignore_edges), 1))

bidirectional_dijkstra(G, source, target, weight, ignore_nodes, ignore_edges) ==
    IF source \in ignore_nodes \/ target \in ignore_nodes THEN NoPath
    ELSE IF source = target THEN [length |-> 0, path |-> <<source>>]
    ELSE bidir_loop(G, weight, ignore_nodes, ignore_edges,
             [dists |-> [d \in {0, 1} |-> EmptyDict],
              paths |-> [d \in {0, 1} |-> IF d = 0 THEN (source :> <<source>>)
                                                   ELSE (target :> <<target>>)],
              fringe |-> [d \in {0, 1} |-> IF d = 0 THEN {<<0, 0, source>>}
                                                    ELSE {<<0, 1, target>>}],
              seen |-> [d \in {0, 1} |-> IF d = 0 THEN (source :> 0) ELSE (target :> 0)],
              c |-> 2, finaldist |-> 0, finalpath |-> <<>>, dir |-> 1])

\* PathBuffer
EmptyBuffer == [paths |-> {}, sortedpaths |-> {}, counter |-> 0]

PathBuffer_push(B, cost, path) ==
    IF path \in B.paths THEN B
    ELSE [paths |-> B.paths \cup {path},
          sortedpaths |-> B.sortedpaths \cup {<<cost, B.counter, path>>},
          counter |-> B.counter + 1]

PathBuffer_pop(B) ==
    LET e == HeapMin(B.sortedpaths)
    IN [path |-> e[3],
        buffer |-> [B EXCEPT !.paths = @ \ {e[3]}, !.sortedpaths = @ \ {e}]]

\* length_func(path) of the weighted case
RECURSIVE length_func(_, _, _, _)
length_func(G, weight, path, i) ==
    IF i >= Len(path) THEN 0
    ELSE wt(G.edata[EdgeKey(path[i], path[i + 1])], weight)
           + length_func(G, weight, path, i + 1)

\* for i in range(1, len(prev_path)): ...   (ignore_nodes and ignore_edges accumulate)
RECURSIVE spur_paths(_, _, _, _, _, _, _, _, _)
spur_paths(G, target, weight, listA, listB, prev_path, i, ignore_nodes, ignore_edges) ==
    IF i >= Len(prev_path) THEN listB
    ELSE LET root == SubSeq(prev_path, 1, i)
             root_length == length_func(G, weight, root, 1)
             ignore_edges1 == ignore_edges \cup
                 {<<listA[n][i], listA[n][i + 1]>> :
                     n \in {m \in 1..Len(listA) :
                              Len(listA[m]) > i /\ SubSeq(listA[m], 1, i) = root}}
             r == bidirectional_dijkstra(G, root[i], target, weight, ignore_nodes, ignore_edges1)
             listB1 == IF r.path = <<>> THEN listB
                       ELSE PathBuffer_push(listB, root_length + r.length,
                                            SubSeq(root, 1, i - 1) \o r.path)
         IN spur_paths(G, target, weight, listA, listB1, prev_path, i + 1,
                       ignore_nodes \cup {root[i]}, ignore_edges1)

\* The generator, resumed until k paths are collected or it is exhausted:
\*   for path in shortest_simple_paths(G, source, target, weight=weight):
\*       paths.append(path); if len(paths) >= k: break
RECURSIVE ksp_loop(_, _, _, _, _, _, _, _)
ksp_loop(G, source, target, weight, k, listA, listB, paths) ==
    LET listB1 ==
            IF listA = <<>>
            THEN LET r == bidirectional_dijkstra(G, source, target, weight, {}, {})
                 IN PathBuffer_push(listB, r.length, r.path)
            ELSE spur_paths(G, target, weight, listA, listB, listA[Len(listA)], 1, {}, {})
    IN IF listB1.sortedpaths = {} THEN paths
       ELSE LET p == PathBuffer_pop(listB1)
                paths1 == Append(paths, p.path)
            IN IF Len(paths1) >= k THEN paths1
               ELSE ksp_loop(G, source, target, weight, k,
                             Append(listA, p.path), p.buffer, paths1)

\* variant: the loop left one path late (len(paths) > k)
k_shortest_paths_one_more(G, source, target, weight, k) ==
    IF bidirectional_dijkstra(G, source, target, weight, {}, {}).path = <<>>
    THEN [raised |-> TRUE, paths |-> <<>>]
    ELSE [raised |-> FALSE,
          paths |-> ksp_loop(G, source, target, weight, k + 1, <<>>, EmptyBuffer, <<>>)]

\* variant: the single-node path of a node to itself is not yielded
k_shortest_paths_no_trivial(G, source, target, weight, k) ==
    IF source = target THEN [raised |-> FALSE, paths |-> <<>>]
    ELSE IF bidirectional_dijkstra(G, source, target, weight, {}, {}).path = <<>>
    THEN [raised |-> TRUE, paths |-> <<>>]
    ELSE [raised |-> FALSE,
          paths |-> ksp_loop(G, source, target, weight, k, <<>>, EmptyBuffer, <<>>)]

\* [raised |-> TRUE]: NetworkXNoPath left the first search of the generator
k_shortest_paths(G, source, target, weight, k) ==
    IF bidirectional_dijkstra(G, source, target, weight, {}, {}).path = <<>>
    THEN [raised |-> TRUE, paths |-> <<>>]
    ELSE [raised |-> FALSE,
          paths |-> ksp_loop(G, source, target, weight, k, <<>>, EmptyBuffer, <<>>)]

---------------------------------------------------------------------------
(* Responses *)

NoRoute == [path |-> <<>>, len_m |-> 0]

NoOut ==
    [groups |-> {}, best |-> NoRoute, best_alts |-> <<>>,
     shortest |-> NoRoute, shortest_alts |-> <<>>]

\* no request is being answered
Idle ==
    [endpoint |-> "none", req |-> <<>>, status |-> 0, error |-> "", table |-> <<>>,
     out |-> NoOut, predict_calls |-> 0, searches |-> 0]

ErrNotLoaded == "forecast not loaded; call /forecast first"

\* jsonify({"error": msg}), status
ErrorResponse(endpoint, req, status, msg, searches) ==
    [Idle EXCEPT !.endpoint = endpoint, !.req = req, !.status = status, !.error = msg,
                 !.searches = searches]

\* one entry of the response: the path, its length and (not modelled) its coordinates
RouteEntry(path) == [path |-> path, len_m |-> path_length(path)]

RouteEntries(paths) == [i \in 1..Len(paths) |-> RouteEntry(paths[i])]

---------------------------------------------------------------------------
(* GET /forecast *)

forecast_key(hour, day_of_week, is_peak) == <<hour, day_of_week, is_peak>>

\* request.args.get("use_cache", "true").lower() != "false"
parse_use_cache(use_cache) ==
    lower(IF use_cache = None THEN "true" ELSE use_cache) # "false"

\* variant: use_cache not consulted
cache_hit_always(use_cache, key) == key \in DOMAIN FORECAST_CACHE

\* use_cache and key in FORECAST_CACHE
cache_hit(use_cache, key) == use_cache /\ key \in DOMAIN FORECAST_CACHE

\* FORECAST_CACHE[key] = result
cache_store(cache, key, result) == (key :> result) @@ cache

\* variant: the assignment made only for a table that is not yet cached
forecast_activate_fresh_only(result) ==
    IF \E key \in DOMAIN FORECAST_CACHE : FORECAST_CACHE[key] = result
    THEN forecast_map
    ELSE [isset |-> TRUE, d |-> DictByEdgeId(result, Len(result))]

\* variant: the dict bound to app.forecast_map is updated in place, and another
\* thread sees it with only the first row replaced
forecast_activate_in_place(result) ==
    [isset |-> TRUE,
     d |-> DictByEdgeId(result, 1)
             @@ getattr_forecast_map(forecast_map, DictByEdgeId(result, Len(result)))]

\* app.forecast_map = {r["edge_id"]: r for r in result}
forecast_activate(result) == [isset |-> TRUE, d |-> DictByEdgeId(result, Len(result))]

\* The handler: the response, and the cache and the active forecast it leaves
forecast(hour, day_of_week, is_peak, use_cache) ==
    LET req == [hour |-> hour, day_of_week |-> day_of_week, is_peak |-> is_peak,
                use_cache |-> use_cache]
    IN IF \/ (hour # None /\ hour \notin DOMAIN FloatTable)
          \/ (day_of_week # None /\ day_of_week \notin DOMAIN IntTable)
          \/ (is_peak # None /\ is_peak \notin DOMAIN IntTable)
       THEN [resp |-> ErrorResponse("forecast", req, 400, "invalid hour/day_of_week/is_peak", 0),
             cache |-> FORECAST_CACHE, fmap |-> forecast_map, key |-> <<>>]
       ELSE LET h == IF hour = None THEN 9 ELSE FloatTable[hour]
                d == IF day_of_week = None THEN 1 ELSE IntTable[day_of_week]
                p == IF is_peak = None THEN 1 ELSE IntTable[is_peak]
                key == forecast_key(h, d, p)
                hit == cache_hit(parse_use_cache(use_cache), key)
                fresh == predict_forecast(h, d, p)
                result == IF hit THEN FORECAST_CACHE[key] ELSE fresh.table
            IN [resp |-> [Idle EXCEPT !.endpoint = "forecast", !.req = req, !.status = 200,
                                      !.table = result,
                                      !.predict_calls = IF hit THEN 0 ELSE fresh.predict_calls],
                cache |-> IF hit THEN FORECAST_CACHE ELSE cache_store(FORECAST_CACHE, key, result),
                fmap |-> forecast_activate(result), key |-> key]

---------------------------------------------------------------------------
(* GET /route *)

\* variant: the check of the active forecast left out
route_checks_without_forecast(source, target) ==
    IF source \in {None, ""} \/ target \in {None, ""} THEN "source and target are required"
    ELSE IF source \notin DOMAIN GRAPH.adj \/ target \notin DOMAIN GRAPH.adj
    THEN "invalid source/target"
    ELSE ""

\* lines 218-223: the error of the first failing check, "" when all pass
route_checks(source, target) ==
    IF source \in {None, ""} \/ target \in {None, ""} THEN "source and target are required"
    ELSE IF source \notin DOMAIN GRAPH.adj \/ target \notin DOMAIN GRAPH.adj
    THEN "invalid source/target"
    ELSE IF DOMAIN getattr_forecast_map(forecast_map, EmptyDict) = {}
    THEN ErrNotLoaded
    ELSE ""

\* lines 226-296 once best and Gp are computed (lines 228-229, unused when the
\* mode leaves the penalized group out): the remaining searches and the response
route_respond(req, source, target, mode, k, best, Gp) ==
    LET pen == mode \in {"both", "penalized"}
        dis == mode \in {"both", "distance"}
        alt_paths == k_shortest_paths(Gp, source, target, "pen_weight", k)
        shortest == astar_distance_only(source, target)
        alt_d == k_shortest_paths(GRAPH, source, target, "weight", k)
        n_pen == IF ~pen THEN 0 ELSE IF best = <<>> THEN 1 ELSE 2
        n_dis == IF ~dis THEN 0 ELSE IF shortest = <<>> THEN 1 ELSE 2
    IN IF pen /\ (best = <<>> \/ alt_paths.raised)
       THEN ErrorResponse("route", req, 404, "no path", n_pen)
       ELSE IF dis /\ (shortest = <<>> \/ alt_d.raised)
       THEN ErrorResponse("route", req, 404, "no path", n_pen + n_dis)
       ELSE IF ~pen /\ ~dis
       THEN ErrorResponse("route", req, 404, "no path", 0)
       ELSE [Idle EXCEPT !.endpoint = "route", !.req = req, !.status = 200,
                         !.searches = n_pen + n_dis,
                         !.out = [groups |-> (IF pen THEN {"best", "best_alts"} ELSE {})
                                               \cup (IF dis THEN {"shortest", "shortest_alts"} ELSE {}),
                                  best |-> IF pen THEN RouteEntry(best) ELSE NoRoute,
                                  best_alts |-> IF pen THEN RouteEntries(alt_paths.paths) ELSE <<>>,
                                  shortest |-> IF dis THEN RouteEntry(shortest) ELSE NoRoute,
                                  shortest_alts |-> IF dis THEN RouteEntries(alt_d.paths) ELSE <<>>]]

\* lines 224-296: the try block and the response
route_compute(req, source, target, mode, k) ==
    route_respond(req, source, target, mode, k,
                  astar_with_congestion(source, target), build_penalized_graph)

\* GRAPH as lines 224-296 leave it: build_penalized_graph runs when the mode
\* includes "penalized" and the primary search has not raised NetworkXNoPath
GRAPH_after_route_compute(source, target, mode) ==
    IF mode \in {"both", "penalized"} /\ astar_with_congestion(source, target) # <<>>
    THEN GRAPH_after_build_penalized_graph
    ELSE GRAPH

\* variant: the active forecast required only when the mode includes "penalized"
route_forecast_by_mode(source, target, mode, k) ==
    LET req == [source |-> source, target |-> target, mode |-> mode, k |-> k]
        err == route_checks(source, target)
    IN IF k # None /\ k \notin DOMAIN IntTable
       THEN ErrorResponse("route", req, 500, "ValueError", 0)
       ELSE IF err # "" /\ ~(err = ErrNotLoaded /\ mode = "distance")
       THEN ErrorResponse("route", req, 400, err, 0)
       ELSE route_compute(req, source, target, IF mode = None THEN "both" ELSE mode,
                          IF k = None THEN 3 ELSE IntTable[k])

\* The handler.  int(request.args.get("k", 3)) is evaluated first, outside any
\* try: a ValueError leaves the handler and Flask answers 500.
route(source, target, mode, k) ==
    LET req == [source |-> source, target |-> target, mode |-> mode, k |-> k]
        err == route_checks(source, target)
    IN IF k # None /\ k \notin DOMAIN IntTable
       THEN ErrorResponse("route", req, 500, "ValueError", 0)
       ELSE IF err # "" THEN ErrorResponse("route", req, 400, err, 0)
       ELSE route_compute(req, source, target, IF mode = None THEN "both" ELSE mode,
                          IF k = None THEN 3 ELSE IntTable[k])

\* GRAPH as the handler leaves it
GRAPH_after_route(source, target, mode, k) ==
    IF (k # None /\ k \notin DOMAIN IntTable) \/ route_checks(source, target) # ""
    THEN GRAPH
    ELSE GRAPH_after_route_compute(source, target, IF mode = None THEN "both" ELSE mode)

---------------------------------------------------------------------------
(* The service: requests are answered one at a time *)

\* data/nodes.csv and data/edges.csv as build_graph_from_paths.py writes them:
\* unique edge ids, positive capacities, lengths >= 0; the same pair of nodes
\* may occur in two rows (e5, e6), and a node may have no edge (n5).
NODES_CSV == <<"n1", "n2", "n3", "n4", "n5">>

EDGES_CSV ==
    << [id |-> "e1", source |-> "n1", target |-> "n2", length_m |-> 1000, capacity |-> 6000],
       [id |-> "e2", source |-> "n1", target |-> "n3", length_m |-> 1000, capacity |-> 4000],
       [id |-> "e3", source |-> "n3", target |-> "n4", length_m |-> 1000, capacity |-> 4000],
       [id |-> "e4", source |-> "n2", target |-> "n4", length_m |-> 1000, capacity |-> 6000],
       [id |-> "e5", source |-> "n2", target |-> "n3", length_m |-> 300, capacity |-> 3000],
       [id |-> "e6", source |-> "n3", target |-> "n2", length_m |-> 500, capacity |-> 3000] >>

\* the query strings the clients send
Hours == {None, "9.0", "17", "x"}
Days == {None, "mon"}
Peaks == {None, "0"}
UseCaches == {None, "false", "False", "no"}
Sources == {None, "n1", "n5", "n9"}
Targets == {"", "n1", "n4", "n5", "n9"}
RouteModes == {None, "both", "penalized", "distance", "fastest"}
Ks == {None, "1", "2", "0", "-1", "abc"}

\* no function-level call has been made
NoCall == [fn |-> "none"]

\* the requests are answered one at a time: no worker thread is modelled
NoThreads == <<>>

Init ==
    /\ GRAPH = load_graph(NODES_CSV, EDGES_CSV)
    /\ MODEL \in Models
    /\ FORECAST_CACHE = EmptyDict
    /\ forecast_map = Unset
    /\ resp = Idle
    /\ last_forecast = <<>>
    /\ ret = NoCall
    /\ threads = NoThreads

Forecast(hour, day_of_week, is_peak, use_cache) ==
    /\ resp.status = 0
    /\ LET r == forecast(hour, day_of_week, is_peak, use_cache)
       IN /\ resp' = r.resp
          /\ FORECAST_CACHE' = r.cache
          /\ forecast_map' = r.fmap
          /\ last_forecast' = IF r.resp.status = 200 THEN r.key ELSE last_forecast
    /\ UNCHANGED <<GRAPH, MODEL, ret, threads>>

Route(source, target, mode, k) ==
    /\ resp.status = 0
    /\ resp' = route(source, target, mode, k)
    /\ GRAPH' = GRAPH_after_route(source, target, mode, k)
    /\ UNCHANGED <<MODEL, FORECAST_CACHE, forecast_map, last_forecast, ret, threads>>

\* the client has the response; the next request can be sent
ClientReceive ==
    /\ resp.status # 0
    /\ resp' = Idle
    /\ UNCHANGED <<GRAPH, MODEL, FORECAST_CACHE, forecast_map, last_forecast, ret, threads>>

Next ==
    \/ \E hour \in Hours, day_of_week \in Days, is_peak \in Peaks, use_cache \in UseCaches :
          Forecast(hour, day_of_week, is_peak, use_cache)
    \/ \E source \in Sources, target \in Targets, mode \in RouteModes, k \in Ks :
          Route(source, target, mode, k)
    \/ ClientReceive

Spec == Init /\ [][Next]_vars

---------------------------------------------------------------------------
(* congestion_penalty applied to drawn forecasts *)

\* pred_flow and capacity in tenths: capacities below 1 (0, 0.5, 0.9), 1 and 400;
\* flows on both sides of the ratios 0.5 and 0.8 for each
PenaltyFlows == {0, 4, 5, 7, 8, 9, 1999, 2000, 3199, 3200, 5000}
PenaltyCapacities == {0, 5, 9, 10, 4000}
PenaltyEdgeIds == {"e1", "e2"}

InitPenalty ==
    /\ GRAPH = load_graph(NODES_CSV, EDGES_CSV)
    /\ MODEL \in Models
    /\ FORECAST_CACHE = EmptyDict
    /\ forecast_map \in {Unset} \cup
          {[isset |-> TRUE,
            d |-> ("e1" :> [edge_id |-> "e1", pred_flow |-> f, capacity |-> c])] :
              f \in PenaltyFlows, c \in PenaltyCapacities}
    /\ resp = Idle
    /\ last_forecast = <<>>
    /\ ret = NoCall
    /\ threads = NoThreads

CallCongestionPenalty(edge_id) ==
    /\ ret' = [fn |-> "congestion_penalty", edge_id |-> edge_id,
               value |-> congestion_penalty(edge_id)]
    /\ UNCHANGED <<GRAPH, MODEL, FORECAST_CACHE, forecast_map, resp, last_forecast, threads>>

NextPenalty == \E edge_id \in PenaltyEdgeIds : CallCongestionPenalty(edge_id)

SpecPenalty == InitPenalty /\ [][NextPenalty]_vars

---------------------------------------------------------------------------
(* The path searches applied to drawn graphs and forecasts *)

\* number of alternatives asked for: k in 1..MaxK
MaxK == 3

\* the rows of edges.csv: a ring of four paths with a chord, and the ring alone
\* written in another order
PathEdgeOrders ==
    { << <<"e1", "n1", "n2">>, <<"e2", "n1", "n3">>, <<"e3", "n3", "n4">>,
         <<"e4", "n2", "n4">>, <<"e5", "n2", "n3">> >>,
      << <<"e4", "n4", "n2">>, <<"e3", "n3", "n4">>, <<"e2", "n3", "n1">>,
         <<"e1", "n1", "n2">> >> }

\* lengths in tenths of a metre; 0 is what round(d, 1) gives a POI on a path node
PathLengths == {0, 1, 2}

PathEdgeIds == {"e1", "e2", "e3", "e4", "e5"}

PathCsv(order, len) ==
    [i \in 1..Len(order) |->
        [id |-> order[i][1], source |-> order[i][2], target |-> order[i][3],
         length_m |-> len[order[i][1]], capacity |-> 4000]]

\* predicted flows by edge: no congestion; e1 and e4 in the top tier; e2 and e3
\* on the boundary 0.5 and e5 on the boundary 0.8
PathFlows ==
    { [e \in PathEdgeIds |-> 0],
      [e \in PathEdgeIds |-> IF e \in {"e1", "e4"} THEN 3600 ELSE 1000],
      [e \in PathEdgeIds |-> IF e \in {"e2", "e3"} THEN 2000 ELSE IF e = "e5" THEN 3200 ELSE 0] }

\* the active forecast a /forecast request leaves for graph G and flows t
PathForecast(G, t) ==
    [isset |-> TRUE,
     d |-> [e \in EdgeIds(G) |-> [edge_id |-> e, pred_flow |-> t[e], capacity |-> 4000]]]

PathPairs ==
    { <<"n1", "n4">>, <<"n1", "n3">>, <<"n2", "n3">>, <<"n4", "n1">>, <<"n1", "n1">>,
      <<"n1", "n5">> }

InitPath ==
    /\ \E order \in PathEdgeOrders, len \in [PathEdgeIds -> PathLengths], t \in PathFlows :
          /\ GRAPH = load_graph(NODES_CSV, PathCsv(order, len))
          /\ forecast_map = PathForecast(load_graph(NODES_CSV, PathCsv(order, len)), t)
    /\ MODEL \in {"rf_base"}
    /\ FORECAST_CACHE = EmptyDict
    /\ resp = Idle
    /\ last_forecast = <<>>
    /\ ret = NoCall
    /\ threads = NoThreads

CallAstarWithCongestion(source, target) ==
    /\ ret.fn = "none"
    /\ ret' = [fn |-> "astar_with_congestion", source |-> source, target |-> target,
               path |-> astar_with_congestion(source, target)]
    /\ UNCHANGED <<GRAPH, MODEL, FORECAST_CACHE, forecast_map, resp, last_forecast, threads>>

CallAstarDistanceOnly(source, target) ==
    /\ ret.fn = "none"
    /\ ret' = [fn |-> "astar_distance_only", source |-> source, target |-> target,
               path |-> astar_distance_only(source, target)]
    /\ UNCHANGED <<GRAPH, MODEL, FORECAST_CACHE, forecast_map, resp, last_forecast, threads>>

\* k_shortest_paths(Gp, source, target, "pen_weight", k) and
\* k_shortest_paths(GRAPH, source, target, "weight", k)
CallKShortestPaths(weight, source, target, k) ==
    /\ ret.fn = "none"
    /\ LET G == IF weight = "pen_weight" THEN build_penalized_graph ELSE GRAPH
           r == k_shortest_paths(G, source, target, weight, k)
       IN ret' = [fn |-> "k_shortest_paths", weight |-> weight, source |-> source,
                  target |-> target, k |-> k, raised |-> r.raised, paths |-> r.paths]
    /\ GRAPH' = IF weight = "pen_weight" THEN GRAPH_after_build_penalized_graph ELSE GRAPH
    /\ UNCHANGED <<MODEL, FORECAST_CACHE, forecast_map, resp, last_forecast, threads>>

\* the try block of route, which runs once a forecast is active
CallRouteCompute(source, target, k) ==
    /\ ret.fn = "none"
    /\ forecast_map.isset
    /\ ret' = [fn |-> "route_compute", source |-> source, target |-> target, k |-> k,
               resp |-> route_compute(<<>>, source, target, "both", k)]
    /\ GRAPH' = GRAPH_after_route_compute(source, target, "both")
    /\ UNCHANGED <<MODEL, FORECAST_CACHE, forecast_map, resp, last_forecast, threads>>

\* the caller has the result
Return ==
    /\ ret.fn # "none"
    /\ ret' = NoCall
    /\ UNCHANGED <<GRAPH, MODEL, FORECAST_CACHE, forecast_map, resp, last_forecast, threads>>

NextPath ==
    \/ \E p \in PathPairs : CallAstarWithCongestion(p[1], p[2])
    \/ \E p \in PathPairs : CallAstarDistanceOnly(p[1], p[2])
    \/ \E p \in PathPairs, weight \in {"pen_weight", "weight"}, k \in 1..MaxK :
          CallKShortestPaths(weight, p[1], p[2], k)
    \/ \E p \in PathPairs, k \in 1..MaxK : CallRouteCompute(p[1], p[2], k)
    \/ Return

SpecPath == InitPath /\ [][NextPath]_vars

---------------------------------------------------------------------------
(* The service under waitress: the handlers run in worker threads, and the  *)
(* steps of two requests interleave between any two accesses to the shared  *)
(* FORECAST_CACHE and app.forecast_map.  A step is one access to the shared *)
(* state together with the thread-local computation that leads to it.       *)

WorkerThreads == {"t1", "t2"}

\* /route requests answered at the same time (they write nothing shared)
MaxRoutes == 1

RoutePcs == {"route_228", "route_146", "route_260"}

\* the query strings of the concurrent clients
ConcHours == {None, "x"}
ConcPeaks == {None, "0"}
ConcUseCaches == {None, "false"}
ConcTargets == {"n4", "n5"}
ConcModes == {"both", "distance"}
ConcKs == {"2"}

\* a thread that answers no request, and the locals of the two handlers
IdleThread ==
    [pc |-> "idle", req |-> <<>>, key |-> <<>>, result |-> <<>>, predict_calls |-> 0,
     best |-> <<>>, Gp |-> EmptyGraph, es |-> <<>>, i |-> 0, pen_from |-> {},
     resp |-> Idle]

\* lines 194-201: the key of the request, or the error of the except branch
forecast_parse(hour, day_of_week, is_peak) ==
    IF \/ (hour # None /\ hour \notin DOMAIN FloatTable)
       \/ (day_of_week # None /\ day_of_week \notin DOMAIN IntTable)
       \/ (is_peak # None /\ is_peak \notin DOMAIN IntTable)
    THEN [ok |-> FALSE, key |-> <<>>]
    ELSE [ok |-> TRUE,
          key |-> forecast_key(IF hour = None THEN 9 ELSE FloatTable[hour],
                               IF day_of_week = None THEN 1 ELSE IntTable[day_of_week],
                               IF is_peak = None THEN 1 ELSE IntTable[is_peak])]

InitConc ==
    /\ GRAPH = load_graph(NODES_CSV, EDGES_CSV)
    /\ MODEL \in {"rf_base"}
    /\ FORECAST_CACHE = EmptyDict
    /\ forecast_map = Unset
    /\ resp = Idle
    /\ last_forecast = <<>>
    /\ ret = NoCall
    /\ threads = [t \in WorkerThreads |-> IdleThread]

\* lines 193-203: the parameters, the key, and the test "key in FORECAST_CACHE"
ForecastLookup(t, hour, day_of_week, is_peak, use_cache) ==
    /\ threads[t].pc = "idle"
    /\ LET req == [hour |-> hour, day_of_week |-> day_of_week, is_peak |-> is_peak,
                   use_cache |-> use_cache]
           parsed == forecast_parse(hour, day_of_week, is_peak)
       IN threads' = [threads EXCEPT ![t] =
             IF ~parsed.ok
             THEN [IdleThread EXCEPT !.pc = "done",
                      !.resp = ErrorResponse("forecast", req, 400,
                                             "invalid hour/day_of_week/is_peak", 0)]
             ELSE [IdleThread EXCEPT !.req = req, !.key = parsed.key,
                      !.pc = IF cache_hit(parse_use_cache(use_cache), parsed.key)
                             THEN "forecast_204" ELSE "forecast_206"]]
    /\ UNCHANGED <<GRAPH, MODEL, FORECAST_CACHE, forecast_map, resp, last_forecast, ret>>

\* line 204: result = FORECAST_CACHE[key]
ForecastRead(t) ==
    /\ threads[t].pc = "forecast_204"
    /\ threads' = [threads EXCEPT ![t].result = FORECAST_CACHE[threads[t].key],
                                  ![t].pc = "forecast_208"]
    /\ UNCHANGED <<GRAPH, MODEL, FORECAST_CACHE, forecast_map, resp, last_forecast, ret>>

\* lines 206-207: result = predict_forecast(...); FORECAST_CACHE[key] = result
ForecastStore(t) ==
    /\ threads[t].pc = "forecast_206"
    /\ LET key == threads[t].key
           fresh == predict_forecast(key[1], key[2], key[3])
       IN /\ FORECAST_CACHE' = cache_store(FORECAST_CACHE, key, fresh.table)
          /\ threads' = [threads EXCEPT ![t].result = fresh.table,
                                        ![t].predict_calls = fresh.predict_calls,
                                        ![t].pc = "forecast_208"]
    /\ UNCHANGED <<GRAPH, MODEL, forecast_map, resp, last_forecast, ret>>

\* lines 208-209: the new dict is built, then bound to app.forecast_map by one
\* attribute assignment; the response is the table
ForecastActivate(t) ==
    /\ threads[t].pc = "forecast_208"
    /\ forecast_map' = forecast_activate(threads[t].result)
    /\ last_forecast' = threads[t].key
    /\ threads' = [threads EXCEPT ![t].pc = "done",
                      ![t].resp = [Idle EXCEPT !.endpoint = "forecast", !.req = threads[t].req,
                                       !.status = 200, !.table = threads[t].result,
                                       !.predict_calls = threads[t].predict_calls]]
    /\ UNCHANGED <<GRAPH, MODEL, FORECAST_CACHE, resp, ret>>

\* lines 214-223: the parameters and the checks; line 222 reads app.forecast_map
RouteChecks(t, source, target, mode, k) ==
    /\ threads[t].pc = "idle"
    /\ Cardinality({u \in WorkerThreads : threads[u].pc \in RoutePcs}) < MaxRoutes
    /\ LET req == [source |-> source, target |-> target, mode |-> mode, k |-> k]
           err == route_checks(source, target)
       IN threads' = [threads EXCEPT ![t] =
             IF k # None /\ k \notin DOMAIN IntTable
             THEN [IdleThread EXCEPT !.pc = "done",
                      !.resp = ErrorResponse("route", req, 500, "ValueError", 0)]
             ELSE IF err # ""
             THEN [IdleThread EXCEPT !.pc = "done",
                      !.resp = ErrorResponse("route", req, 400, err, 0)]
             ELSE [IdleThread EXCEPT !.req = req,
                      !.pc = IF mode \in {None, "both", "penalized"}
                             THEN "route_228" ELSE "route_260"]]
    /\ UNCHANGED <<GRAPH, MODEL, FORECAST_CACHE, forecast_map, resp, last_forecast, ret>>

\* line 228, and line 145 of build_penalized_graph: the primary search reads
\* app.forecast_map for the edges it examines (none when source is target);
\* then Gp = GRAPH.copy()
RouteAstar(t) ==
    /\ threads[t].pc = "route_228"
    /\ LET req == threads[t].req
           best == astar_with_congestion(req.source, req.target)
       IN threads' = [threads EXCEPT ![t] =
             IF best = <<>>
             THEN [IdleThread EXCEPT !.pc = "done",
                      !.resp = ErrorResponse("route", req, 404, "no path", 1)]
             ELSE [@ EXCEPT !.best = best, !.Gp = Graph_copy(GRAPH).G,
                            !.es = edges(Graph_copy(GRAPH).G), !.i = 1,
                            !.pen_from = IF req.source # req.target THEN {forecast_map} ELSE {},
                            !.pc = "route_146"]]
    /\ UNCHANGED <<GRAPH, MODEL, FORECAST_CACHE, forecast_map, resp, last_forecast, ret>>

\* lines 146-149, one turn of the loop: congestion_penalty reads
\* app.forecast_map, and pen_weight is written to the attributes of the edge
RoutePenWeight(t) ==
    /\ threads[t].pc = "route_146"
    /\ threads[t].i <= Len(threads[t].es)
    /\ LET e == threads[t].es[threads[t].i]
           key == EdgeKey(e.u, e.v)
       IN /\ threads' = [threads EXCEPT ![t].Gp.edata[key] = with_pen_weight(@),
                                        ![t].i = @ + 1,
                                        ![t].pen_from = @ \cup {forecast_map}]
          /\ GRAPH' = IF Graph_copy(GRAPH).shares_data
                      THEN [GRAPH EXCEPT !.edata[key] = with_pen_weight(@)]
                      ELSE GRAPH
    /\ UNCHANGED <<MODEL, FORECAST_CACHE, forecast_map, resp, last_forecast, ret>>

\* lines 230-296: the alternatives over Gp, the distance group and the response
RouteRespond(t) ==
    /\ \/ threads[t].pc = "route_260"
       \/ threads[t].pc = "route_146" /\ threads[t].i > Len(threads[t].es)
    /\ LET req == threads[t].req
       IN threads' = [threads EXCEPT ![t].pc = "done",
             ![t].resp = route_respond(req, req.source, req.target,
                                       IF req.mode = None THEN "both" ELSE req.mode,
                                       IF req.k = None THEN 3 ELSE IntTable[req.k],
                                       threads[t].best, threads[t].Gp)]
    /\ UNCHANGED <<GRAPH, MODEL, FORECAST_CACHE, forecast_map, resp, last_forecast, ret>>

\* the client has the response; the thread takes the next request
ThreadReceive(t) ==
    /\ threads[t].pc = "done"
    /\ threads' = [threads EXCEPT ![t] = IdleThread]
    /\ UNCHANGED <<GRAPH, MODEL, FORECAST_CACHE, forecast_map, resp, last_forecast, ret>>

NextConc ==
    \/ \E t \in WorkerThreads, hour \in ConcHours, is_peak \in ConcPeaks,
          use_cache \in ConcUseCaches : ForecastLookup(t, hour, None, is_peak, use_cache)
    \/ \E t \in WorkerThreads : ForecastRead(t)
    \/ \E t \in WorkerThreads : ForecastStore(t)
    \/ \E t \in WorkerThreads : ForecastActivate(t)
    \/ \E t \in WorkerThreads, target \in ConcTargets, mode \in ConcModes, k \in ConcKs :
          RouteChecks(t, "n1", target, mode, k)
    \/ \E t \in WorkerThreads : RouteAstar(t)
    \/ \E t \in WorkerThreads : RoutePenWeight(t)
    \/ \E t \in WorkerThreads : RouteRespond(t)
    \/ \E t \in WorkerThreads : ThreadReceive(t)

SpecConc == InitConc /\ [][NextConc]_vars

---------------------------------------------------------------------------
(* Vocabulary of the properties *)

Nodes(G) == DOMAIN G.adj

SeqToSet(s) == {s[i] : i \in 1..Len(s)}

\* every simple path of G from the last node of path to target, extending path
RECURSIVE Extensions(_, _, _)
Extensions(G, path, target) ==
    IF path[Len(path)] = target THEN {path}
    ELSE UNION {Extensions(G, Append(path, w), target) :
                   w \in SeqToSet(G.adj[path[Len(path)]]) \ SeqToSet(path)}

SimplePaths(G, source, target) == Extensions(G, <<source>>, target)

Connected(G, source, target) == SimplePaths(G, source, target) # {}

\* the tier of a forecast row: 0.0 below ratio 0.5, 0.3 below 0.8, 0.7 from 0.8 on,
\* the ratio being pred_flow over the capacity raised to at least 1 (10 tenths)
TierOfRow(row) ==
    LET cap == IF row.capacity < 10 THEN 10 ELSE row.capacity
    IN IF 2 * row.pred_flow < cap THEN 0
       ELSE IF 5 * row.pred_flow < 4 * cap THEN 3
       ELSE 7

\* the tier of an edge under a forecast given as a map from edge ids to rows
TierUnder(m, edge_id) == IF edge_id \in DOMAIN m THEN TierOfRow(m[edge_id]) ELSE 0

\* a table as the map from edge id to its row
TableAsMap(t) ==
    [e \in {t[i].edge_id : i \in 1..Len(t)} |->
        t[CHOOSE i \in 1..Len(t) : t[i].edge_id = e]]

RECURSIVE SumOver(_, _)
SumOver(f, S) ==
    IF S = {} THEN 0 ELSE LET x == CHOOSE y \in S : TRUE IN f[x] + SumOver(f, S \ {x})

\* total length of a path
DistCost(G, path) ==
    SumOver([i \in 1..(Len(path) - 1) |-> G.edata[{path[i], path[i + 1]}].length_m],
            1..(Len(path) - 1))

\* total of length * (1 + penalty) along a path, the penalties taken from the map m
PenCost(G, m, path) ==
    SumOver([i \in 1..(Len(path) - 1) |->
                G.edata[{path[i], path[i + 1]}].length_m
                  * (10 + TierUnder(m, G.edata[{path[i], path[i + 1]}].id))],
            1..(Len(path) - 1))

\* the active forecast as a map (empty when none is set)
ActiveMap == IF forecast_map.isset THEN forecast_map.d ELSE EmptyDict

forecast_ok == last_forecast # <<>>

\* a /route request is being answered
RouteAnswered == resp.endpoint = "route"

\* a /forecast request with well-formed parameters is being answered
ForecastAnswered == resp.endpoint = "forecast" /\ resp.status = 200

\* source and target are nodes of the graph and k is absent or an integer literal
WellFormedRoute(req) ==
    /\ req.source \in Nodes(GRAPH)
    /\ req.target \in Nodes(GRAPH)
    /\ req.k \in {None, "-1", "0", "1", "2", "3"}

\* the key a /forecast request names
ReqKey(req) ==
    << IF req.hour = None THEN 9 ELSE FloatTable[req.hour],
       IF req.day_of_week = None THEN 1 ELSE IntTable[req.day_of_week],
       IF req.is_peak = None THEN 1 ELSE IntTable[req.is_peak] >>

\* use_cache is false
ReqForced(req) == req.use_cache \in {"false", "False", "FALSE"}

FullTable(t) ==
    /\ Len(t) = Cardinality(EdgeIds(GRAPH))
    /\ {t[i].edge_id : i \in 1..Len(t)} = EdgeIds(GRAPH)

---------------------------------------------------------------------------
(* C1 *)

\* C1: a /route request with mode=penalized (existing source and target, k an
\* integer) answered while no /forecast request has yet succeeded gets 400
\* "forecast not loaded" and runs no search; once a /forecast request has
\* succeeded, such a request between two connected nodes gets 200 with a path
\* from source to target.
C1_ForecastGatesPenalizedRoute ==
    (RouteAnswered /\ resp.req.mode = "penalized" /\ WellFormedRoute(resp.req)) =>
        /\ ~forecast_ok =>
              /\ resp.status = 400
              /\ resp.error = ErrNotLoaded
              /\ resp.searches = 0
              /\ resp.out = NoOut
        /\ (forecast_ok /\ Connected(GRAPH, resp.req.source, resp.req.target)) =>
              /\ resp.status = 200
              /\ "best" \in resp.out.groups
              /\ resp.out.best.path \in SimplePaths(GRAPH, resp.req.source, resp.req.target)

C1_Witness ==
    /\ RouteAnswered /\ resp.req.mode = "penalized" /\ forecast_ok
    /\ resp.status = 200
    /\ Len(resp.out.best.path) = 3

---------------------------------------------------------------------------
(* C2 *)

\* C2 as stated: the refusal is raised only for a mode that includes
\* "penalized"; a mode=distance request between connected nodes answered
\* while no forecast has been resolved is not refused and gets the
\* distance-only route.
C2_RefusalOnlyForPenalized ==
    (RouteAnswered /\ WellFormedRoute(resp.req)) =>
        /\ resp.error = ErrNotLoaded => resp.req.mode \in {None, "both", "penalized"}
        /\ (resp.req.mode = "distance" /\ ~forecast_ok
              /\ Connected(GRAPH, resp.req.source, resp.req.target)) =>
                 /\ resp.status = 200
                 /\ resp.out.groups = {"shortest", "shortest_alts"}

\* C2 amended: the refusal does not depend on the mode.  Every /route request
\* (existing source and target, k an integer) answered while no forecast has
\* been resolved gets 400 "forecast not loaded" and runs no search, mode=distance
\* included; and the refusal is given only while no forecast has been resolved.
C2_RefusalWhateverTheMode ==
    (RouteAnswered /\ WellFormedRoute(resp.req)) =>
        /\ ~forecast_ok =>
              /\ resp.status = 400
              /\ resp.error = ErrNotLoaded
              /\ resp.searches = 0
              /\ resp.out = NoOut
        /\ resp.error = ErrNotLoaded => ~forecast_ok

C2_Witness ==
    /\ RouteAnswered /\ resp.req.mode = "distance" /\ ~forecast_ok
    /\ resp.error = ErrNotLoaded
    /\ Connected(GRAPH, resp.req.source, resp.req.target)

---------------------------------------------------------------------------
(* C3 *)

\* what answering one well-formed /forecast request does to the cache
C3_Step ==
    (resp.status = 0 /\ resp'.endpoint = "forecast" /\ resp'.status = 200) =>
        LET key == ReqKey(resp'.req)
            invoked == ReqForced(resp'.req) \/ key \notin DOMAIN FORECAST_CACHE
        IN /\ resp'.predict_calls = IF invoked THEN 1 ELSE 0
           /\ ~invoked =>
                 /\ resp'.table = FORECAST_CACHE[key]
                 /\ FORECAST_CACHE' = FORECAST_CACHE
           /\ invoked =>
                 /\ resp'.table = predict_forecast(key[1], key[2], key[3]).table
                 /\ DOMAIN FORECAST_CACHE' = DOMAIN FORECAST_CACHE \cup {key}
                 /\ FORECAST_CACHE'[key] = resp'.table
                 /\ \A other \in DOMAIN FORECAST_CACHE \ {key} :
                       FORECAST_CACHE'[other] = FORECAST_CACHE[other]

\* C3: a well-formed /forecast request invokes the predictor exactly once if
\* use_cache is false or its key is not cached, and not at all otherwise; a hit
\* returns the cached table and leaves the cache as it was; a miss or a forced
\* refresh stores the predicted table under the key and leaves the tables of
\* the other keys as they were.
C3_CacheDiscipline == [][C3_Step]_vars

\* a forced refresh of a cached key, with another key cached beside it
C3_Witness ==
    /\ ForecastAnswered
    /\ ReqForced(resp.req)
    /\ resp.predict_calls = 1
    /\ Cardinality(DOMAIN FORECAST_CACHE) >= 2

---------------------------------------------------------------------------
(* C4 *)

\* C4: after a successful /forecast request, hit or miss, the active forecast
\* is the table the request returned, which is the table cached under its key;
\* at any time the active forecast is the table cached under the key of the
\* most recent successful /forecast request, and the primary penalized route of
\* a /route response is a cheapest path under the penalties of that table.
C4_ActiveIsLastResolved ==
    /\ ForecastAnswered =>
          /\ last_forecast = ReqKey(resp.req)
          /\ forecast_map.isset
          /\ forecast_map.d = TableAsMap(resp.table)
          /\ FORECAST_CACHE[ReqKey(resp.req)] = resp.table
    /\ forecast_ok =>
          /\ forecast_map.isset
          /\ forecast_map.d = TableAsMap(FORECAST_CACHE[last_forecast])
    /\ (RouteAnswered /\ resp.status = 200 /\ "best" \in resp.out.groups) =>
          \A q \in SimplePaths(GRAPH, resp.req.source, resp.req.target) :
             PenCost(GRAPH, TableAsMap(FORECAST_CACHE[last_forecast]), resp.out.best.path)
               <= PenCost(GRAPH, TableAsMap(FORECAST_CACHE[last_forecast]), q)

\* a cache hit on a key other than the one that was active, then a route whose
\* penalized and distance results differ
C4_Witness ==
    /\ RouteAnswered /\ resp.status = 200
    /\ resp.out.groups = {"best", "best_alts", "shortest", "shortest_alts"}
    /\ resp.out.best.path # resp.out.shortest.path
    /\ Cardinality(DOMAIN FORECAST_CACHE) >= 2
    /\ \E key \in DOMAIN FORECAST_CACHE : FORECAST_CACHE[key] # FORECAST_CACHE[last_forecast]

---------------------------------------------------------------------------
(* C5 *)

\* C5: every cached table, every table a /forecast request returns and the
\* active forecast hold exactly one entry per edge of the graph: none missing,
\* none twice, none for an edge that is not in the graph.
C5_TablesCoverTheGraph ==
    /\ \A key \in DOMAIN FORECAST_CACHE : FullTable(FORECAST_CACHE[key])
    /\ ForecastAnswered => FullTable(resp.table)
    /\ forecast_map.isset =>
          /\ DOMAIN forecast_map.d = EdgeIds(GRAPH)
          /\ \A e \in DOMAIN forecast_map.d : forecast_map.d[e].edge_id = e

C5_Witness ==
    /\ ForecastAnswered
    /\ Cardinality(DOMAIN FORECAST_CACHE) >= 2
    /\ Len(resp.table) = 5
    /\ Len(EDGES_CSV) = 6

---------------------------------------------------------------------------
(* C10 *)

\* a /route request breaks an input rule
InvalidRoute(req) ==
    \/ req.source \in {None, ""} \/ req.target \in {None, ""}
    \/ req.source \notin Nodes(GRAPH) \/ req.target \notin Nodes(GRAPH)
    \/ req.k \notin {None, "1", "2", "3", "4", "5"}
    \/ req.mode \notin {None, "both", "penalized", "distance"}

\* C10: every /route request that breaks an input rule (source or target
\* missing or unknown, k not an integer >= 1, mode outside both, penalized,
\* distance) is answered 400 and runs no path search.
C10_InvalidInputIs400 ==
    (RouteAnswered /\ InvalidRoute(resp.req)) =>
        /\ resp.status = 400
        /\ resp.searches = 0

---------------------------------------------------------------------------
(* C6 *)

\* C6: congestion_penalty returns one of 0.0, 0.3, 0.7: 0.0 when no forecast is
\* active or the edge has no entry in it; otherwise, with
\* ratio = pred_flow / max(capacity, 1), 0.0 for ratio < 0.5, 0.3 for
\* 0.5 <= ratio < 0.8 and 0.7 for ratio >= 0.8, capacities below 1 included.
C6_PenaltyTiers ==
    ret.fn = "congestion_penalty" =>
        /\ ret.value \in {0, 3, 7}
        /\ (~forecast_map.isset \/ ret.edge_id \notin DOMAIN forecast_map.d) => ret.value = 0
        /\ (forecast_map.isset /\ ret.edge_id \in DOMAIN forecast_map.d) =>
              ret.value = TierOfRow(forecast_map.d[ret.edge_id])

\* a capacity below 1 with the ratio exactly 0.8
C6_Witness ==
    /\ ret.fn = "congestion_penalty"
    /\ forecast_map.isset /\ ret.edge_id \in DOMAIN forecast_map.d
    /\ forecast_map.d[ret.edge_id].capacity = 5
    /\ forecast_map.d[ret.edge_id].pred_flow = 8
    /\ ret.value = 7

---------------------------------------------------------------------------
(* C7 *)

\* C7: for two nodes of one connected component the single-path search returns
\* a path from source to target that costs no more than any simple path between
\* them: under length * (1 + penalty) for astar_with_congestion, under length
\* for astar_distance_only.
C7_SinglePathIsCheapest ==
    /\ (ret.fn = "astar_with_congestion" /\ Connected(GRAPH, ret.source, ret.target)) =>
          /\ ret.path \in SimplePaths(GRAPH, ret.source, ret.target)
          /\ \A q \in SimplePaths(GRAPH, ret.source, ret.target) :
                PenCost(GRAPH, ActiveMap, ret.path) <= PenCost(GRAPH, ActiveMap, q)
    /\ (ret.fn = "astar_distance_only" /\ Connected(GRAPH, ret.source, ret.target)) =>
          /\ ret.path \in SimplePaths(GRAPH, ret.source, ret.target)
          /\ \A q \in SimplePaths(GRAPH, ret.source, ret.target) :
                DistCost(GRAPH, ret.path) <= DistCost(GRAPH, q)

\* the penalized search leaves the shortest path for a longer, less congested one
C7_Witness ==
    /\ ret.fn = "astar_with_congestion"
    /\ Len(ret.path) >= 3
    /\ \E q \in SimplePaths(GRAPH, ret.source, ret.target) :
          DistCost(GRAPH, q) < DistCost(GRAPH, ret.path)

---------------------------------------------------------------------------
(* C8 *)

\* the cost of a path under the weight k_shortest_paths is given
CostUnder(weight, path) ==
    IF weight = "pen_weight" THEN PenCost(GRAPH, ActiveMap, path) ELSE DistCost(GRAPH, path)

\* C8: for k >= 1 and a connected pair, k_shortest_paths returns at most k
\* paths, each a simple path from source to target, no two the same, in order
\* of non-decreasing cost under the weight; it returns fewer than k only when
\* the pair has fewer than k simple paths, and then without an error.
C8_KShortestPaths ==
    (ret.fn = "k_shortest_paths" /\ ret.k >= 1 /\ Connected(GRAPH, ret.source, ret.target)) =>
        LET all == SimplePaths(GRAPH, ret.source, ret.target)
            n == Len(ret.paths)
        IN /\ ~ret.raised
           /\ n <= ret.k
           /\ \A i \in 1..n : ret.paths[i] \in all
           /\ \A i, j \in 1..n : i # j => ret.paths[i] # ret.paths[j]
           /\ \A i \in 1..(n - 1) :
                 CostUnder(ret.weight, ret.paths[i]) <= CostUnder(ret.weight, ret.paths[i + 1])
           /\ n < ret.k => n = Cardinality(all)

\* a short result: every simple path of the pair, fewer than k
C8_Witness ==
    /\ ret.fn = "k_shortest_paths"
    /\ ret.k = 3
    /\ Len(ret.paths) = 2
    /\ ret.source # ret.target

---------------------------------------------------------------------------
(* C9 *)

\* the cheapest simple path of the pair under the cost is unique
UniqueCheapest(all, cost(_)) ==
    \E p \in all : \A q \in all \ {p} : cost(p) < cost(q)

\* C9 as stated: the first alternative of each group is the same node sequence
\* as the primary route of the group, also when several simple paths share the
\* least cost.
C9_FirstAlternativeIsPrimary ==
    (ret.fn = "route_compute" /\ ret.resp.status = 200) =>
        /\ ret.resp.out.best_alts[1].path = ret.resp.out.best.path
        /\ ret.resp.out.shortest_alts[1].path = ret.resp.out.shortest.path

\* C9 amended: the first alternative of each group costs the same as the
\* primary route of the group, and is the same node sequence whenever the
\* cheapest simple path between the endpoints is unique; with several cheapest
\* paths the two may be different paths of that cost.
C9_FirstAlternativeCostsAsPrimary ==
    (ret.fn = "route_compute" /\ ret.resp.status = 200) =>
        LET all == SimplePaths(GRAPH, ret.source, ret.target)
            out == ret.resp.out
            pen(p) == PenCost(GRAPH, ActiveMap, p)
            dist(p) == DistCost(GRAPH, p)
        IN /\ Len(out.best_alts) >= 1 /\ Len(out.shortest_alts) >= 1
           /\ pen(out.best_alts[1].path) = pen(out.best.path)
           /\ dist(out.shortest_alts[1].path) = dist(out.shortest.path)
           /\ UniqueCheapest(all, pen) => out.best_alts[1].path = out.best.path
           /\ UniqueCheapest(all, dist) => out.shortest_alts[1].path = out.shortest.path

\* two cheapest paths: the first alternative is not the primary route
C9_Witness ==
    /\ ret.fn = "route_compute" /\ ret.resp.status = 200
    /\ ret.resp.out.best_alts[1].path # ret.resp.out.best.path
    /\ ret.resp.out.best_alts[1].len_m > 0

---------------------------------------------------------------------------
(* C11 *)

\* the table the predictor gives for a key
TableOf(key) == predict_forecast(key[1], key[2], key[3]).table

\* no request is in flight: every thread is idle or holds a finished response
Quiet == \A t \in WorkerThreads : threads[t].pc \in {"idle", "done"}

\* thread t holds the response of a /forecast request answered 200
ForecastDone(t) ==
    /\ threads[t].pc = "done"
    /\ threads[t].resp.endpoint = "forecast"
    /\ threads[t].resp.status = 200

\* C11: under every interleaving of the steps of concurrent /forecast requests,
\* once no request is in flight the cache holds under every requested key the
\* complete table of that key, every finished request has returned the table of
\* its own key, and the active forecast is as a whole the table of the request
\* whose assignment to app.forecast_map came last: never entries of two tables,
\* and never unset once a request has finished.
C11_LastWriterWins ==
    Quiet =>
        /\ \A key \in DOMAIN FORECAST_CACHE :
              FullTable(FORECAST_CACHE[key]) /\ FORECAST_CACHE[key] = TableOf(key)
        /\ \A t \in WorkerThreads : ForecastDone(t) =>
              /\ ReqKey(threads[t].resp.req) \in DOMAIN FORECAST_CACHE
              /\ threads[t].resp.table = TableOf(ReqKey(threads[t].resp.req))
              /\ forecast_ok
        /\ forecast_ok =>
              /\ last_forecast \in DOMAIN FORECAST_CACHE
              /\ forecast_map.isset
              /\ forecast_map.d = TableAsMap(TableOf(last_forecast))
        /\ ~forecast_ok => ~forecast_map.isset /\ FORECAST_CACHE = EmptyDict

\* two requests with different keys have finished side by side; the first
\* thread's table is the active one
C11_Witness ==
    /\ ForecastDone("t1") /\ ForecastDone("t2")
    /\ ReqKey(threads["t1"].resp.req) # ReqKey(threads["t2"].resp.req)
    /\ threads["t1"].resp.table # threads["t2"].resp.table
    /\ threads["t1"].resp.predict_calls = 1 /\ threads["t2"].resp.predict_calls = 1
    /\ forecast_map.d = TableAsMap(threads["t1"].resp.table)
    /\ \E e \in DOMAIN forecast_map.d :
          TierOfRow(forecast_map.d[e]) # TierOfRow(TableAsMap(threads["t2"].resp.table)[e])

---------------------------------------------------------------------------
(* C12 *)

\* the response entry of the single-node path
TrivialEntry(x) == [path |-> <<x>>, len_m |-> 0]

\* C12: a /route request from an existing node to itself (k an integer, mode
\* both, penalized or distance) answered while a forecast is active gets 200;
\* the primary route of each group of the mode is the single-node path with
\* len_m = 0, and the alternatives of the group are exactly that one path.
C12_SameNodeIsTrivialRoute ==
    (/\ RouteAnswered /\ WellFormedRoute(resp.req) /\ forecast_ok
     /\ resp.req.source = resp.req.target
     /\ resp.req.mode \in {None, "both", "penalized", "distance"}) =>
        LET x == resp.req.source
            pen == resp.req.mode \in {None, "both", "penalized"}
            dis == resp.req.mode \in {None, "both", "distance"}
        IN /\ resp.status = 200
           /\ resp.error = ""
           /\ resp.out.groups = (IF pen THEN {"best", "best_alts"} ELSE {})
                                  \cup (IF dis THEN {"shortest", "shortest_alts"} ELSE {})
           /\ pen => /\ resp.out.best = TrivialEntry(x)
                     /\ resp.out.best_alts = <<TrivialEntry(x)>>
           /\ dis => /\ resp.out.shortest = TrivialEntry(x)
                     /\ resp.out.shortest_alts = <<TrivialEntry(x)>>

\* two alternatives asked for a node that has neighbours: one trivial path
C12_Witness ==
    /\ RouteAnswered /\ forecast_ok
    /\ resp.req.source = "n1" /\ resp.req.target = "n1"
    /\ resp.req.k = "2" /\ resp.req.mode = "both"
    /\ resp.status = 200
    /\ resp.out.best_alts = <<TrivialEntry("n1")>>
    /\ Len(GRAPH.adj["n1"]) = 2

---------------------------------------------------------------------------
(* C13 *)

\* thread t holds the 200 response of a /route request with a penalized group
PenalizedRouteDone(t) ==
    /\ threads[t].pc = "done"
    /\ threads[t].resp.endpoint = "route"
    /\ threads[t].resp.status = 200
    /\ "best" \in threads[t].resp.out.groups

\* C13: within one /route request with a penalized group, every penalty read,
\* by the primary search and for each pen_weight of the penalized graph, comes
\* from one forecast table, also when /forecast requests run at the same time:
\* every value of app.forecast_map the request has read penalties from is the
\* table of one key, and every pen_weight of Gp is the length raised by the
\* tier of the edge in that table.
C13_OneForecastPerRoute ==
    \A t \in WorkerThreads : PenalizedRouteDone(t) =>
        \E key \in DOMAIN FORECAST_CACHE :
            LET m == TableAsMap(FORECAST_CACHE[key])
            IN /\ threads[t].pen_from = {[isset |-> TRUE, d |-> m]}
               /\ \A k \in DOMAIN threads[t].Gp.edata :
                     threads[t].Gp.edata[k].pen_weight
                       = GRAPH.edata[k].length_m * (10 + TierUnder(m, GRAPH.edata[k].id))

---------------------------------------------------------------------------
(* C14 *)

\* no edge of graph G carries a pen_weight attribute
NoPenWeight(G) == \A k \in DOMAIN G.edata : "pen_weight" \notin DOMAIN G.edata[k]

\* what answering one /route request does to the shared state
C14_Step ==
    /\ NoPenWeight(GRAPH) /\ NoPenWeight(GRAPH')
    /\ (resp.status = 0 /\ resp'.endpoint = "route") =>
          /\ FORECAST_CACHE' = FORECAST_CACHE
          /\ forecast_map' = forecast_map
          /\ GRAPH'.node = GRAPH.node
          /\ GRAPH'.adj = GRAPH.adj
          /\ GRAPH'.edata = GRAPH.edata

\* C14: every /route request, whatever its mode and its outcome, leaves the
\* forecast cache, the active forecast and the graph (nodes, edges and every
\* edge attribute) as they were; pen_weight is written to the copy only, and no
\* edge of the shared graph ever carries it.
C14_RouteLeavesSharedState == [][C14_Step]_vars

\* a 200 response with a penalized group, computed under penalties that are not
\* all zero: the copy carries pen_weight, the shared graph does not
C14_Witness ==
    /\ RouteAnswered /\ resp.status = 200
    /\ "best_alts" \in resp.out.groups
    /\ \E k \in DOMAIN GRAPH.edata :
          /\ build_penalized_graph.edata[k].pen_weight > GRAPH.edata[k].length_m * 10
          /\ "pen_weight" \notin DOMAIN GRAPH.edata[k]
    /\ FORECAST_CACHE # EmptyDict

=============================================================================
